---- MODULE Spec2Model ----
(***************************************************************************)
(* Model of the four-stage training pipeline                               *)
(*   preprocess -> forward_layer -> backward_layer -> logger               *)
(* and of the trainer (orchestrator) that wires and supervises it.         *)
(*                                                                         *)
(* Three specifications share the variables:                               *)
(*   Spec       the orchestrator: pipes, fork/dup2/exec, close, wait       *)
(*   SpecPipe   the four stage programs wired stage to stage               *)
(*   SpecStage  each stage program run on its own with an arbitrary stdin  *)
(***************************************************************************)
EXTENDS Integers, Sequences, FiniteSets, TLC

\* ------------------------------------------------------------------------
\* Orchestrator (src/trainer.cpp)
\* ------------------------------------------------------------------------

VARIABLES
    tpc,            \* position of trainer::run / main
    tret,           \* return value of trainer::run (-1: not returned yet)
    tfail,          \* which step made run return early ("none" if none)
    pfd,            \* pfd[i] = <<read fd, write fd>> of pipe i (-1: not created)
    fds,            \* fds[p][n]: what descriptor n of process p refers to
    cstate,         \* life cycle of child k
    cpc,            \* position of a forked child inside spawn_child
    cstatus,        \* wait status of child k once it has terminated
    g_child_exited, \* the flag set by sigchld_handler
    sigchld,        \* number of SIGCHLD deliveries pending for the trainer
    tlog            \* termination lines the wait loop wrote to stderr

orchVars == <<tpc, tret, tfail, pfd, fds, cstate, cpc, cstatus,
              g_child_exited, sigchld, tlog>>

VARIABLES
    solo,           \* 0: the four stages are wired; k: stage k runs on its own
    csvOpen,        \* whether preprocess can open the dataset
    cap,            \* lines a pipe made by the trainer holds before a write
                    \* blocks; 0: the stages are looked at without the trainer
    faults,         \* failures of a stage the environment may still cause
    shapes,         \* the kinds of line the input of the head stage may hold
    sin,            \* sin[k]: lines stage k can still read from its input
    sread,          \* sread[k]: the lines stage k has read so far
    sout,           \* sout[k]: what stage k has written on its stdout
    serr,           \* serr[k]: what stage k has written on its stderr
    spc,            \* position of stage k
    sstatus,        \* how stage k terminated
    mode,           \* BACKWARD_MODE of the learner
    params,         \* g_W1, g_b1, g_w2, g_b2 of the learner
    paramsAtLoad,   \* the parameters when the learner entered run_stream
    mfile,          \* the parameter file
    mfileWritable,  \* whether the parameter file path can be opened for writing
    lcount,         \* count of run_stream
    count,          \* count of logger::run
    total_loss,     \* total_loss of logger::run
    total_yhat,     \* total_yhat of logger::run
    g_dump_requested,
    g_terminate_requested

dataVars == <<solo, csvOpen, cap, faults, shapes, sin, sread, sout, serr, spc, sstatus, mode, params,
              paramsAtLoad, mfile, mfileWritable, lcount, count, total_loss,
              total_yhat, g_dump_requested, g_terminate_requested>>

STDIN_FILENO == 0
STDOUT_FILENO == 1

Trainer == 0
Stages == 1..4
Procs == 0..4
Pipes == 1..3
FdNums == 0..8

\* the signals a stage can be terminated by in the model
SIGKILL == 9
SIGPIPE == 13
StageSignals == {SIGKILL, SIGPIPE}
StageExitCodes == {0, 1}

NoFd == [kind |-> "none", pipe |-> 0, end |-> "-", cloexec |-> FALSE]
StdFd == [kind |-> "std", pipe |-> 0, end |-> "-", cloexec |-> FALSE]
PipeFd(i, e) == [kind |-> "pipe", pipe |-> i, end |-> e, cloexec |-> FALSE]

NoStatus == [kind |-> "none", code |-> 0]

\* The descriptor table of a process started from a shell: 0, 1, 2 open.
ShellFds == [n \in FdNums |-> IF n <= 2 THEN StdFd ELSE NoFd]
ClosedFds == [n \in FdNums |-> NoFd]

\* pipe(2) hands out the two lowest free descriptor numbers.
LowestFree(tbl) == CHOOSE n \in FdNums :
                      /\ tbl[n].kind = "none"
                      /\ \A m \in FdNums : m < n => tbl[m].kind # "none"

\* fcntl(fd, F_SETFD, flags | FD_CLOEXEC)
set_cloexec_broken(tbl, fd) == tbl

set_cloexec(tbl, fd) == [tbl EXCEPT ![fd].cloexec = TRUE]

\* close(fd)
close_fd(tbl, fd) == [tbl EXCEPT ![fd] = NoFd]

\* dup2(oldfd, newfd): newfd refers to the same pipe end, without FD_CLOEXEC
dup2(tbl, oldfd, newfd) == [tbl EXCEPT ![newfd] = [tbl[oldfd] EXCEPT !.cloexec = FALSE]]

\* execvp: descriptors marked close-on-exec are closed, the others survive
exec_fds(tbl) == [n \in FdNums |-> IF tbl[n].cloexec THEN NoFd ELSE tbl[n]]

\* the descriptors spawn_child is given for stage k (lines 141-158)
stdin_fd(k) == IF k = 1 THEN -1 ELSE pfd[k - 1][1]
stdout_fd(k) == IF k = 4 THEN -1 ELSE pfd[k][2]

\* processes (and descriptor numbers) holding end e of pipe i
Holders(i, e) == {<<p, n>> \in Procs \X FdNums :
                     fds[p][n].kind = "pipe" /\ fds[p][n].pipe = i /\ fds[p][n].end = e}

TrainerPipeFds == {n \in FdNums : fds[Trainer][n].kind = "pipe"}

\* children wait() can still report: forked and not yet reaped
Unreaped == {k \in Stages : cstate[k] \in {"forked", "running", "zombie"}}
Spawned == {k \in Stages : cstate[k] # "none"}

InitOrch ==
    /\ tpc = "pipe1"
    /\ tret = -1
    /\ tfail = "none"
    /\ pfd = [i \in Pipes |-> <<-1, -1>>]
    /\ fds = [p \in Procs |-> IF p = Trainer THEN ShellFds ELSE ClosedFds]
    /\ cstate = [k \in Stages |-> "none"]
    /\ cpc = [k \in Stages |-> "-"]
    /\ cstatus = [k \in Stages |-> NoStatus]
    /\ g_child_exited = 0
    /\ sigchld = 0
    /\ tlog = <<>>

\* pipe(pipe_x) at lines 81-95; a failing call makes run return 1 at once
TrainerPipe(i) ==
    /\ tpc = CASE i = 1 -> "pipe1" [] i = 2 -> "pipe2" [] OTHER -> "pipe3"
    /\ \E ok \in BOOLEAN :
         IF ok
         THEN LET r == LowestFree(fds[Trainer])
                  t1 == [fds[Trainer] EXCEPT ![r] = PipeFd(i, "r")]
                  w == LowestFree(t1)
                  t2 == [t1 EXCEPT ![w] = PipeFd(i, "w")]
              IN /\ fds' = [fds EXCEPT ![Trainer] = t2]
                 /\ pfd' = [pfd EXCEPT ![i] = <<r, w>>]
                 /\ tpc' = CASE i = 1 -> "pipe2" [] i = 2 -> "pipe3" [] OTHER -> "cloexec"
                 /\ UNCHANGED <<tret, tfail>>
         ELSE /\ tpc' = "done"
              /\ tret' = 1
              /\ tfail' = "pipe"
              /\ UNCHANGED <<fds, pfd>>
    /\ UNCHANGED <<cstate, cpc, cstatus, g_child_exited, sigchld, tlog>>
    /\ UNCHANGED dataVars

\* the six set_cloexec calls, lines 100-105
TrainerSetCloexec ==
    /\ tpc = "cloexec"
    /\ LET t1 == set_cloexec(fds[Trainer], pfd[1][1])
           t2 == set_cloexec(t1, pfd[1][2])
           t3 == set_cloexec(t2, pfd[2][1])
           t4 == set_cloexec(t3, pfd[2][2])
           t5 == set_cloexec(t4, pfd[3][1])
           t6 == set_cloexec(t5, pfd[3][2])
       IN fds' = [fds EXCEPT ![Trainer] = t6]
    /\ tpc' = "spawn1"
    /\ UNCHANGED <<tret, tfail, pfd, cstate, cpc, cstatus, g_child_exited, sigchld, tlog>>
    /\ UNCHANGED dataVars

SpawnPc(k) == CASE k = 1 -> "spawn1" [] k = 2 -> "spawn2" [] k = 3 -> "spawn3" [] OTHER -> "spawn4"
AfterSpawnPc(k) == CASE k = 1 -> "spawn2" [] k = 2 -> "spawn3" [] k = 3 -> "spawn4" [] OTHER -> "close"

\* spawn_child in the parent: fork() (lines 37-42, 64) and the caller's
\* "if (pid < 0) return 1;" (lines 144, 149, 154, 159)
TrainerSpawn(k) ==
    /\ tpc = SpawnPc(k)
    /\ \E ok \in BOOLEAN :
         IF ok
         THEN /\ fds' = [fds EXCEPT ![k] = fds[Trainer]]
              /\ cstate' = [cstate EXCEPT ![k] = "forked"]
              /\ cpc' = [cpc EXCEPT ![k] = "dup_stdin"]
              /\ tpc' = AfterSpawnPc(k)
              /\ UNCHANGED <<tret, tfail>>
         ELSE /\ tpc' = "done"
              /\ tret' = 1
              /\ tfail' = "fork"
              /\ UNCHANGED <<fds, cstate, cpc>>
    /\ UNCHANGED <<pfd, cstatus, g_child_exited, sigchld, tlog>>
    /\ UNCHANGED dataVars

\* a child terminates: every descriptor it holds is closed, it becomes a
\* zombie and the kernel posts SIGCHLD to the trainer
Terminate(k, st) ==
    /\ fds' = [fds EXCEPT ![k] = ClosedFds]
    /\ cstate' = [cstate EXCEPT ![k] = "zombie"]
    /\ cpc' = [cpc EXCEPT ![k] = "-"]
    /\ cstatus' = [cstatus EXCEPT ![k] = st]
    /\ sigchld' = IF tpc = "exited" THEN sigchld ELSE 1

Exited(c) == [kind |-> "exited", code |-> c]
Signaled(s) == [kind |-> "signaled", code |-> s]

\* child side of spawn_child, lines 45-50
ChildDupStdin(k) ==
    /\ cstate[k] = "forked" /\ cpc[k] = "dup_stdin"
    /\ IF stdin_fd(k) >= 0 /\ stdin_fd(k) # STDIN_FILENO
       THEN \E ok \in BOOLEAN :
              IF ok
              THEN /\ fds' = [fds EXCEPT ![k] = dup2(fds[k], stdin_fd(k), STDIN_FILENO)]
                   /\ cpc' = [cpc EXCEPT ![k] = "dup_stdout"]
                   /\ UNCHANGED <<cstate, cstatus, sigchld>>
              ELSE Terminate(k, Exited(1))
       ELSE /\ cpc' = [cpc EXCEPT ![k] = "dup_stdout"]
            /\ UNCHANGED <<fds, cstate, cstatus, sigchld>>
    /\ UNCHANGED <<tpc, tret, tfail, pfd, g_child_exited, tlog>>
    /\ UNCHANGED dataVars

\* child side of spawn_child, lines 52-57
ChildDupStdout(k) ==
    /\ cstate[k] = "forked" /\ cpc[k] = "dup_stdout"
    /\ IF stdout_fd(k) >= 0 /\ stdout_fd(k) # STDOUT_FILENO
       THEN \E ok \in BOOLEAN :
              IF ok
              THEN /\ fds' = [fds EXCEPT ![k] = dup2(fds[k], stdout_fd(k), STDOUT_FILENO)]
                   /\ cpc' = [cpc EXCEPT ![k] = "exec"]
                   /\ UNCHANGED <<cstate, cstatus, sigchld>>
              ELSE Terminate(k, Exited(1))
       ELSE /\ cpc' = [cpc EXCEPT ![k] = "exec"]
            /\ UNCHANGED <<fds, cstate, cstatus, sigchld>>
    /\ UNCHANGED <<tpc, tret, tfail, pfd, g_child_exited, tlog>>
    /\ UNCHANGED dataVars

\* a child that returns from spawn_child when execvp fails, and so goes on
\* in trainer::run with the descriptors it had
ChildExecReturns(k) ==
    /\ cstate[k] = "forked" /\ cpc[k] = "exec"
    /\ \E ok \in BOOLEAN :
         /\ fds' = [fds EXCEPT ![k] = IF ok THEN exec_fds(fds[k]) ELSE fds[k]]
         /\ cstate' = [cstate EXCEPT ![k] = "running"]
         /\ cpc' = [cpc EXCEPT ![k] = "-"]
         /\ UNCHANGED <<cstatus, sigchld>>
    /\ UNCHANGED <<tpc, tret, tfail, pfd, g_child_exited, tlog>>
    /\ UNCHANGED dataVars

\* child side of spawn_child, lines 59-61: execvp, or _exit(1) when it fails
ChildExec(k) ==
    /\ cstate[k] = "forked" /\ cpc[k] = "exec"
    /\ \E ok \in BOOLEAN :
         IF ok
         THEN /\ fds' = [fds EXCEPT ![k] = exec_fds(fds[k])]
              /\ cstate' = [cstate EXCEPT ![k] = "running"]
              /\ cpc' = [cpc EXCEPT ![k] = "-"]
              /\ UNCHANGED <<cstatus, sigchld>>
         ELSE Terminate(k, Exited(1))
    /\ UNCHANGED <<tpc, tret, tfail, pfd, g_child_exited, tlog>>
    /\ UNCHANGED dataVars

\* a stage program returns from main with some exit code
StageExit(k) ==
    /\ cstate[k] = "running"
    /\ \E c \in StageExitCodes : Terminate(k, Exited(c))
    /\ UNCHANGED <<tpc, tret, tfail, pfd, g_child_exited, tlog>>
    /\ UNCHANGED dataVars

\* a stage program is terminated by a signal
StageKilled(k) ==
    /\ cstate[k] = "running"
    /\ \E s \in StageSignals : Terminate(k, Signaled(s))
    /\ UNCHANGED <<tpc, tret, tfail, pfd, g_child_exited, tlog>>
    /\ UNCHANGED dataVars

\* sigchld_handler, lines 18-21 (installed at line 75, before anything else)
sigchld_handler ==
    /\ sigchld = 1
    /\ tpc # "exited"
    /\ g_child_exited' = 1
    /\ sigchld' = 0
    /\ UNCHANGED <<tpc, tret, tfail, pfd, fds, cstate, cpc, cstatus, tlog>>
    /\ UNCHANGED dataVars

\* a trainer that forgets to close its write end of the last pipe
TrainerClosePipesKeepsOne ==
    /\ tpc = "close"
    /\ LET t1 == close_fd(fds[Trainer], pfd[1][1])
           t2 == close_fd(t1, pfd[1][2])
           t3 == close_fd(t2, pfd[2][1])
           t4 == close_fd(t3, pfd[2][2])
           t5 == close_fd(t4, pfd[3][1])
       IN fds' = [fds EXCEPT ![Trainer] = t5]
    /\ tpc' = "wait"
    /\ UNCHANGED <<tret, tfail, pfd, cstate, cpc, cstatus, g_child_exited, sigchld, tlog>>
    /\ UNCHANGED dataVars

\* the six close calls, lines 162-167
TrainerClosePipes ==
    /\ tpc = "close"
    /\ LET t1 == close_fd(fds[Trainer], pfd[1][1])
           t2 == close_fd(t1, pfd[1][2])
           t3 == close_fd(t2, pfd[2][1])
           t4 == close_fd(t3, pfd[2][2])
           t5 == close_fd(t4, pfd[3][1])
           t6 == close_fd(t5, pfd[3][2])
       IN fds' = [fds EXCEPT ![Trainer] = t6]
    /\ tpc' = "wait"
    /\ UNCHANGED <<tret, tfail, pfd, cstate, cpc, cstatus, g_child_exited, sigchld, tlog>>
    /\ UNCHANGED dataVars

\* what the body of the wait loop writes for one reaped child, lines 174-183
WaitLogBroken(log, k, st) == IF st.kind = "exited" THEN Append(log, [pid |-> k, st |-> st]) ELSE log

WaitLog(log, k, st) ==
    IF st.kind = "exited" THEN Append(log, [pid |-> k, st |-> st])
    ELSE IF st.kind = "signaled" THEN Append(log, [pid |-> k, st |-> st])
    ELSE log

\* one iteration of "while ((wpid = wait(&status)) > 0)": wait returns a
\* terminated child, in whatever order the children terminated
TrainerWaitReap(k) ==
    /\ tpc = "wait"
    /\ cstate[k] = "zombie"
    /\ cstate' = [cstate EXCEPT ![k] = "reaped"]
    /\ tlog' = WaitLog(tlog, k, cstatus[k])
    /\ UNCHANGED <<tpc, tret, tfail, pfd, fds, cpc, cstatus, g_child_exited, sigchld>>
    /\ UNCHANGED dataVars

\* the value trainer::run returns once the wait loop is over, line 186
RunResult == 0

\* wait returns -1 (ECHILD): no child is left, the loop ends, run returns
TrainerWaitDone ==
    /\ tpc = "wait"
    /\ Unreaped = {}
    /\ tpc' = "done"
    /\ tret' = RunResult
    /\ UNCHANGED <<tfail, pfd, fds, cstate, cpc, cstatus, g_child_exited, sigchld, tlog>>
    /\ UNCHANGED dataVars

\* main returns what run returned: the process exits and the kernel closes
\* whatever descriptors it still holds
TrainerExit ==
    /\ tpc = "done"
    /\ tpc' = "exited"
    /\ fds' = [fds EXCEPT ![Trainer] = ClosedFds]
    /\ sigchld' = 0
    /\ UNCHANGED <<tret, tfail, pfd, cstate, cpc, cstatus, g_child_exited, tlog>>
    /\ UNCHANGED dataVars

NextOrch ==
    \/ \E i \in Pipes : TrainerPipe(i)
    \/ TrainerSetCloexec
    \/ \E k \in Stages : TrainerSpawn(k)
    \/ \E k \in Stages : ChildDupStdin(k)
    \/ \E k \in Stages : ChildDupStdout(k)
    \/ \E k \in Stages : ChildExec(k)
    \/ \E k \in Stages : StageExit(k)
    \/ \E k \in Stages : StageKilled(k)
    \/ sigchld_handler
    \/ TrainerClosePipes
    \/ \E k \in Stages : TrainerWaitReap(k)
    \/ TrainerWaitDone
    \/ TrainerExit

\* ------------------------------------------------------------------------
\* Floating point values and their text form
\* ------------------------------------------------------------------------
\* A float is modelled as a fixed-point number: the integer v stands for
\* v / SCALE.  The finite range is [-FMAX, FMAX] (FMAX plays FLT_MAX on a
\* reduced range); beyond it arithmetic saturates to +inf / -inf as IEEE
\* arithmetic does, and inf - inf and 0 * inf give NaN.  Products are
\* truncated to the grid, which stands for rounding to the mantissa.

SCALE == 10000
FMAX == 2000000
PINF == FMAX + 1
NINF == -(FMAX + 1)
NAN == FMAX + 2

\* tokens of a text line that are not a number: the word a program printed
\* for inf / nan is PINF / NINF / NAN itself; GARBAGE is any other word and
\* COMMA the separator of the raw dataset
GARBAGE == FMAX + 3
COMMA == FMAX + 4

\* digits "<<" prints for a float (the default precision of an ostream)
PRECISION == 6

Abs(n) == IF n < 0 THEN -n ELSE n
Sgn(n) == IF n < 0 THEN -1 ELSE IF n > 0 THEN 1 ELSE 0

IsNan(a) == a = NAN
IsInf(a) == a = PINF \/ a = NINF
IsFin(a) == Abs(a) <= FMAX

Sat(v) == IF v > FMAX THEN PINF ELSE IF v < -FMAX THEN NINF ELSE v

FNeg(a) == IF IsNan(a) THEN NAN ELSE -a

FAdd(a, b) ==
    IF IsNan(a) \/ IsNan(b) THEN NAN
    ELSE IF IsInf(a) THEN (IF IsInf(b) /\ a # b THEN NAN ELSE a)
    ELSE IF IsInf(b) THEN b
    ELSE Sat(a + b)

FSub(a, b) == FAdd(a, FNeg(b))

\* |a| * |b| / SCALE for finite operands, computed in parts so that no
\* intermediate value leaves the 32-bit range
MulMag(p, q) ==
    LET ph == p \div SCALE
        pl == p % SCALE
        qh == q \div SCALE
        ql == q % SCALE
    IN IF ph * qh > 2 * (FMAX \div SCALE) THEN FMAX + 1
       ELSE ph * qh * SCALE + ph * ql + pl * qh + ((pl * ql) \div SCALE)

FMul(a, b) ==
    IF IsNan(a) \/ IsNan(b) THEN NAN
    ELSE IF IsInf(a) \/ IsInf(b)
         THEN (IF a = 0 \/ b = 0 THEN NAN ELSE IF Sgn(a) * Sgn(b) > 0 THEN PINF ELSE NINF)
    ELSE IF a = 0 \/ b = 0 THEN 0
    ELSE Sat(Sgn(a) * Sgn(b) * MulMag(Abs(a), Abs(b)))

\* a / b for a finite non-zero divisor
FDiv(a, b) ==
    IF IsNan(a) THEN NAN
    ELSE IF IsInf(a) THEN (IF Sgn(a) * Sgn(b) > 0 THEN PINF ELSE NINF)
    ELSE LET p == Abs(a)
             q == Abs(b)
             m == (p \div q) * SCALE + (((p % q) * SCALE) \div q)
         IN Sat(Sgn(a) * Sgn(b) * m)

\* a > b as the hardware compares: false when either side is NaN
FGt(a, b) == ~IsNan(a) /\ ~IsNan(b) /\ a > b

Pow10(n) == IF n = 6 THEN 1000000 ELSE IF n = 5 THEN 100000 ELSE IF n = 4 THEN 10000 ELSE 1000

\* operator<<(float): "inf", "-inf", "nan" for the special values,
\* otherwise the value rounded to PRECISION significant digits
FormatFloat(v) ==
    IF ~IsFin(v) THEN v
    ELSE IF Abs(v) < Pow10(PRECISION) THEN v
    ELSE Sgn(v) * (((Abs(v) + 5) \div 10) * 10)

\* operator>>(float&) / operator>>(int&) accept a token only if it is the
\* text of a representable number: "inf", "nan", words and commas set failbit
IsNumText(t) == Abs(t) <= FMAX

\* ------------------------------------------------------------------------
\* Records and the line codec (src/src/common.cpp, src/include/common.hpp)
\* ------------------------------------------------------------------------
\* A text line is the sequence of its tokens; an empty line is <<>>.

INPUT_DIM == 4

NoSample == [id |-> 0, x |-> [i \in 1..INPUT_DIM |-> 0], y |-> 0]

Tok(line, i) == IF i <= Len(line) THEN line[i] ELSE GARBAGE
NumAt(line, i) == i <= Len(line) /\ IsNumText(line[i])
CommaAt(line, i) == i <= Len(line) /\ line[i] = COMMA

\* id , f0 , f1 , f2 , f3 , label
parse_csv_line(line) ==
    LET ok == /\ NumAt(line, 1)
              /\ CommaAt(line, 2)
              /\ \A i \in 1..INPUT_DIM :
                    /\ NumAt(line, 2 * i + 1)
                    /\ (i < INPUT_DIM => CommaAt(line, 2 * i + 2))
              /\ CommaAt(line, 2 * INPUT_DIM + 2)
              /\ NumAt(line, 2 * INPUT_DIM + 3)
    IN [ok |-> ok,
        s |-> IF ok
              THEN [id |-> line[1],
                    x |-> [i \in 1..INPUT_DIM |-> line[2 * i + 1]],
                    y |-> line[2 * INPUT_DIM + 3]]
              ELSE NoSample]

\* id f0 f1 f2 f3 y
sample_to_line(s) ==
    <<s.id>> \o [i \in 1..INPUT_DIM |-> FormatFloat(s.x[i])] \o <<FormatFloat(s.y)>>

parse_sample_line(line) ==
    LET ok == /\ NumAt(line, 1)
              /\ \A i \in 1..INPUT_DIM : NumAt(line, i + 1)
              /\ NumAt(line, INPUT_DIM + 2)
    IN [ok |-> ok,
        s |-> IF ok
              THEN [id |-> line[1],
                    x |-> [i \in 1..INPUT_DIM |-> line[i + 1]],
                    y |-> line[INPUT_DIM + 2]]
              ELSE NoSample]

\* ------------------------------------------------------------------------
\* The numeric layer (src/src/math_layer.cpp)
\* ------------------------------------------------------------------------

HIDDEN_DIM == 8
LEARNING_RATE == 10
FEATURE_MEAN == [i \in 1..INPUT_DIM |-> 0]
FEATURE_STD == [i \in 1..INPUT_DIM |-> SCALE]
HALF == 5000

\* the initial values of g_W1, g_b1, g_w2, g_b2 (lines 39-61)
InitialParams ==
    [W1 |-> [j \in 1..HIDDEN_DIM |-> [k \in 1..INPUT_DIM |->
                IF j <= INPUT_DIM THEN (IF k = j THEN 1000 ELSE 0)
                ELSE (IF k = j - INPUT_DIM THEN -1000 ELSE 0)]],
     b1 |-> [j \in 1..HIDDEN_DIM |-> 0],
     w2 |-> [j \in 1..HIDDEN_DIM |-> IF j <= INPUT_DIM THEN 500 ELSE -500],
     b2 |-> 0]

normalize_features(x) ==
    [i \in 1..INPUT_DIM |-> FDiv(FSub(x[i], FEATURE_MEAN[i]), FEATURE_STD[i])]

augment(x) ==
    [i \in 1..INPUT_DIM |-> IF i = INPUT_DIM THEN FMul(x[i], x[i]) ELSE x[i]]

normalize_sample(s) == [s EXCEPT !.x = normalize_features(s.x)]
augment_features(s) == [s EXCEPT !.x = augment(s.x)]

relu(z) == IF FGt(z, 0) THEN z ELSE 0

\* acc + sum over k = 1..n of a[k] * b[k], added in index order
RECURSIVE DotAcc(_, _, _, _)
DotAcc(acc, a, b, n) ==
    IF n = 0 THEN acc
    ELSE FAdd(DotAcc(acc, a, b, n - 1), FMul(a[n], b[n]))

\* (a vector followed by "\o <<>>" is the same vector, computed once)
forward_all(p, s) ==
    LET z1 == [j \in 1..HIDDEN_DIM |-> DotAcc(p.b1[j], p.W1[j], s.x, INPUT_DIM)] \o <<>>
        a1 == [j \in 1..HIDDEN_DIM |-> relu(z1[j])] \o <<>>
    IN [z1 |-> z1, a1 |-> a1, yhat |-> DotAcc(p.b2, p.w2, a1, HIDDEN_DIM)]

compute_forward(p, s) == forward_all(p, s).yhat

\* loss, gradients and the SGD step; the gradient norm it also computes is
\* returned to a caller that never uses it
backward_internal(p, s, y_hat, z1, a1) ==
    LET diff == FSub(y_hat, s.y)
        dL_dz2 == diff
        dL_dw2 == [j \in 1..HIDDEN_DIM |-> FMul(dL_dz2, a1[j])]
        dL_db2 == dL_dz2
        dL_dz1 == [j \in 1..HIDDEN_DIM |->
                     IF FGt(z1[j], 0) THEN FMul(dL_dz2, p.w2[j]) ELSE 0] \o <<>>
        dL_db1 == dL_dz1
        dL_dW1 == [j \in 1..HIDDEN_DIM |-> [k \in 1..INPUT_DIM |-> FMul(dL_dz1[j], s.x[k])]]
    IN [loss |-> FMul(FMul(HALF, diff), diff),
        params |->
          [W1 |-> [j \in 1..HIDDEN_DIM |-> [k \in 1..INPUT_DIM |->
                     FSub(p.W1[j][k], FMul(LEARNING_RATE, dL_dW1[j][k]))]],
           b1 |-> [j \in 1..HIDDEN_DIM |-> FSub(p.b1[j], FMul(LEARNING_RATE, dL_db1[j]))],
           w2 |-> [j \in 1..HIDDEN_DIM |-> FSub(p.w2[j], FMul(LEARNING_RATE, dL_dw2[j]))],
           b2 |-> FSub(p.b2, FMul(LEARNING_RATE, dL_db2))]]

\* runs the forward pass again and ignores the y_hat it is handed
compute_backward_and_update(p, s, y_hat) ==
    LET f == forward_all(p, s)
    IN backward_internal(p, s, f.yhat, f.z1, f.a1)

\* flat layout of the parameters, the order save_parameters writes them in:
\* W1 row by row, b1, w2, b2
NPARAMS == HIDDEN_DIM * INPUT_DIM + HIDDEN_DIM + HIDDEN_DIM + 1

ParamAt(p, i) ==
    IF i <= HIDDEN_DIM * INPUT_DIM
    THEN p.W1[((i - 1) \div INPUT_DIM) + 1][((i - 1) % INPUT_DIM) + 1]
    ELSE IF i <= HIDDEN_DIM * INPUT_DIM + HIDDEN_DIM THEN p.b1[i - HIDDEN_DIM * INPUT_DIM]
    ELSE IF i <= HIDDEN_DIM * INPUT_DIM + 2 * HIDDEN_DIM
         THEN p.w2[i - HIDDEN_DIM * INPUT_DIM - HIDDEN_DIM]
    ELSE p.b2

FromFlat(f) ==
    [W1 |-> [j \in 1..HIDDEN_DIM |-> [k \in 1..INPUT_DIM |-> f[(j - 1) * INPUT_DIM + k]]],
     b1 |-> [j \in 1..HIDDEN_DIM |-> f[HIDDEN_DIM * INPUT_DIM + j]],
     w2 |-> [j \in 1..HIDDEN_DIM |-> f[HIDDEN_DIM * INPUT_DIM + HIDDEN_DIM + j]],
     b2 |-> f[NPARAMS]]

\* A parameter file: whether the path exists and the tokens of its text
NoFile == [exists |-> FALSE, toks |-> <<>>]
EmptyFile == [exists |-> TRUE, toks |-> <<>>]

\* what save_parameters writes once the stream is open (lines 265-292)
save_text(p) ==
    <<HIDDEN_DIM, INPUT_DIM>> \o [i \in 1..NPARAMS |-> FormatFloat(ParamAt(p, i))]

\* number of leading tokens of the body that operator>> accepts
RECURSIVE GoodPrefix(_, _)
GoodPrefix(body, n) ==
    IF n < Len(body) /\ n < NPARAMS /\ IsNumText(body[n + 1])
    THEN GoodPrefix(body, n + 1)
    ELSE n

load_parameters_no_dim_check(p, f) ==
    IF ~f.exists THEN [ok |-> FALSE, params |-> p]
    ELSE LET body == SubSeq(f.toks, 3, Len(f.toks))
             n == GoodPrefix(body, 0)
             flat == [i \in 1..NPARAMS |-> IF i <= n THEN body[i] ELSE ParamAt(p, i)]
         IN [ok |-> n = NPARAMS, params |-> FromFlat(flat)]

\* load_parameters: false when the file is absent or the header differs;
\* otherwise the values are extracted one by one into the globals.  The
\* first extraction that fails stores 0 when it met a word that is not a
\* number and stores nothing at end of file; after it the stream stays
\* failed and the remaining globals are not touched.
load_parameters(p, f) ==
    IF ~f.exists THEN [ok |-> FALSE, params |-> p]
    ELSE IF ~(NumAt(f.toks, 1) /\ NumAt(f.toks, 2)) THEN [ok |-> FALSE, params |-> p]
    ELSE IF f.toks[1] # HIDDEN_DIM \/ f.toks[2] # INPUT_DIM THEN [ok |-> FALSE, params |-> p]
    ELSE LET body == SubSeq(f.toks, 3, Len(f.toks))
             n == GoodPrefix(body, 0)
             flat == [i \in 1..NPARAMS |->
                        IF i <= n THEN body[i]
                        ELSE IF i = n + 1 /\ i <= Len(body) THEN 0
                        ELSE ParamAt(p, i)]
         IN [ok |-> n = NPARAMS, params |-> FromFlat(flat)]

\* ------------------------------------------------------------------------
\* The stage programs
\* ------------------------------------------------------------------------

PRE == 1
FWD == 2
BWD == 3
LOG == 4

Terminated(k) == spc[k] \in {"done", "killed"}

\* nobody can write into pipe i any more: under the trainer, when no
\* process holds its write end open; otherwise when its writer has ended
WriterGone(i) == IF cap = 0 THEN Terminated(i) ELSE Holders(i, "w") = {}

\* nobody can read from pipe i any more
ReaderGone(i) == IF cap = 0 THEN Terminated(i + 1) ELSE Holders(i, "r") = {}

\* the stage whose input comes from outside: preprocess reading the
\* dataset, or the one stage that runs on its own
HeadStage(k) == solo = k \/ (solo = 0 /\ k = PRE)

\* getline fails: the input is at its end, or the pipe is empty and its
\* writer is gone
AtEof(k) == IF HeadStage(k) THEN TRUE ELSE sin[k] = <<>> /\ WriterGone(k - 1)

Diag(tag, line) == [tag |-> tag, line |-> line, n |-> 0, a |-> 0, b |-> 0]
Stat(tag, n, a, b) == [tag |-> tag, line |-> <<>>, n |-> n, a |-> a, b |-> b]

\* --- one iteration of each stage's loop, as a function of the line read ---

\* preprocess::run, lines 26-42
preprocess_line_placeholder(line) ==
    IF line = <<>> THEN [out |-> <<>>, err |-> <<>>]
    ELSE [out |-> <<sample_to_line(normalize_sample(parse_csv_line(line).s))>>, err |-> <<>>]

preprocess_line(line) ==
    IF line = <<>> THEN [out |-> <<>>, err |-> <<>>]
    ELSE LET r == parse_csv_line(line)
         IN IF ~r.ok
            THEN [out |-> <<>>, err |-> <<Diag("preprocess: failed to parse line", line)>>]
            ELSE [out |-> <<sample_to_line(normalize_sample(r.s))>>, err |-> <<>>]

\* forward_layer::run, lines 19-35
forward_line(line) ==
    IF line = <<>> THEN [out |-> <<>>, err |-> <<>>]
    ELSE LET r == parse_sample_line(line)
         IN IF ~r.ok
            THEN [out |-> <<>>, err |-> <<Diag("forward_layer: failed to parse line", line)>>]
            ELSE [out |-> <<sample_to_line(augment_features(r.s))>>, err |-> <<>>]

\* a learner that skips the update of a record when the next line is already
\* waiting on its stdin
run_stream_line_batched(m, p, n, line) ==
    IF line = <<>> THEN [out |-> <<>>, err |-> <<>>, params |-> p, count |-> n]
    ELSE LET r == parse_sample_line(line)
         IN IF ~r.ok
            THEN [out |-> <<>>, err |-> <<Diag("backward_layer: failed to parse line", line)>>,
                  params |-> p, count |-> n]
            ELSE LET y_hat == compute_forward(p, r.s)
                     u == compute_backward_and_update(p, r.s, y_hat)
                 IN [out |-> <<<<r.s.id, FormatFloat(u.loss), FormatFloat(y_hat)>>>>,
                     err |-> <<>>,
                     params |-> IF m = "train" /\ Len(sin[BWD]) <= 1 THEN u.params ELSE p,
                     count |-> n + 1]

\* run_stream, lines 86-117
run_stream_line_always_updates(m, p, n, line) ==
    IF line = <<>> THEN [out |-> <<>>, err |-> <<>>, params |-> p, count |-> n]
    ELSE LET r == parse_sample_line(line)
         IN IF ~r.ok
            THEN [out |-> <<>>, err |-> <<Diag("backward_layer: failed to parse line", line)>>,
                  params |-> p, count |-> n]
            ELSE LET y_hat == compute_forward(p, r.s)
                     u == compute_backward_and_update(p, r.s, y_hat)
                 IN [out |-> <<<<r.s.id, FormatFloat(u.loss), FormatFloat(y_hat)>>>>,
                     err |-> <<>>, params |-> u.params, count |-> n + 1]

run_stream_line_renumbers(m, p, n, line) ==
    IF line = <<>> THEN [out |-> <<>>, err |-> <<>>, params |-> p, count |-> n]
    ELSE LET r == parse_sample_line(line)
         IN IF ~r.ok
            THEN [out |-> <<>>, err |-> <<Diag("backward_layer: failed to parse line", line)>>,
                  params |-> p, count |-> n]
            ELSE LET y_hat == compute_forward(p, r.s)
                     u == compute_backward_and_update(p, r.s, y_hat)
                 IN [out |-> <<<<n + 1, FormatFloat(u.loss), FormatFloat(y_hat)>>>>,
                     err |-> <<>>, params |-> IF m = "train" THEN u.params ELSE p,
                     count |-> n + 1]

run_stream_line_twice(m, p, n, line) ==
    IF line = <<>> THEN [out |-> <<>>, err |-> <<>>, params |-> p, count |-> n]
    ELSE LET r == parse_sample_line(line)
         IN IF ~r.ok
            THEN [out |-> <<>>, err |-> <<Diag("backward_layer: failed to parse line", line)>>,
                  params |-> p, count |-> n]
            ELSE LET y_hat == compute_forward(p, r.s)
                     u == compute_backward_and_update(p, r.s, y_hat)
                     u2 == compute_backward_and_update(u.params, r.s, y_hat)
                 IN [out |-> <<<<r.s.id, FormatFloat(u.loss), FormatFloat(y_hat)>>>>,
                     err |-> <<>>, params |-> IF m = "train" THEN u2.params ELSE p,
                     count |-> n + 1]

run_stream_line(m, p, n, line) ==
    IF line = <<>> THEN [out |-> <<>>, err |-> <<>>, params |-> p, count |-> n]
    ELSE LET r == parse_sample_line(line)
         IN IF ~r.ok
            THEN [out |-> <<>>, err |-> <<Diag("backward_layer: failed to parse line", line)>>,
                  params |-> p, count |-> n]
            ELSE LET y_hat == compute_forward(p, r.s)
                 IN IF m = "train"
                    THEN LET u == compute_backward_and_update(p, r.s, y_hat)
                         IN [out |-> <<<<r.s.id, FormatFloat(u.loss), FormatFloat(y_hat)>>>>,
                             err |-> <<>>, params |-> u.params, count |-> n + 1]
                    ELSE LET diff == FSub(y_hat, r.s.y)
                             loss == FMul(FMul(HALF, diff), diff)
                         IN [out |-> <<<<r.s.id, FormatFloat(loss), FormatFloat(y_hat)>>>>,
                             err |-> <<>>, params |-> p, count |-> n + 1]

\* "ss >> id >> loss >> y_hat" of logger::run, lines 67-79
parse_result_line(line) ==
    LET ok == NumAt(line, 1) /\ NumAt(line, 2) /\ NumAt(line, 3)
    IN [ok |-> ok,
        id |-> IF ok THEN line[1] ELSE 0,
        loss |-> IF ok THEN line[2] ELSE 0,
        y_hat |-> IF ok THEN line[3] ELSE 0]

\* total / count in double arithmetic
Avg(total, n) == Sgn(total) * (Abs(total) \div n)

\* a logger that starts its statistics afresh after each snapshot
logger_line_snapshot_resets(st, line) ==
    IF line = <<>>
    THEN [st |-> st, out |-> <<>>, err |-> <<>>, brk |-> st.term]
    ELSE LET r == parse_result_line(line)
         IN IF ~r.ok
            THEN [st |-> st, out |-> <<>>,
                  err |-> <<Diag("logger: failed to parse line", line)>>, brk |-> FALSE]
            ELSE LET c == st.count + 1
                     tl == st.total_loss + r.loss
                     ty == st.total_yhat + r.y_hat
                 IN [st |-> [count |-> IF st.dump THEN 0 ELSE c,
                             total_loss |-> IF st.dump THEN 0 ELSE tl,
                             total_yhat |-> IF st.dump THEN 0 ELSE ty,
                             dump |-> FALSE, term |-> st.term],
                     out |-> <<Stat("SAMPLE", r.id, FormatFloat(r.loss), FormatFloat(r.y_hat))>>,
                     err |-> IF st.dump /\ c > 0
                             THEN <<Stat("[LOGGER SNAPSHOT]", c,
                                         FormatFloat(Avg(tl, c)), FormatFloat(Avg(ty, c)))>>
                             ELSE <<>>,
                     brk |-> st.term]

\* a logger that looks at the stop request on blank lines only
logger_line_stop_on_blank_only(st, line) ==
    IF line = <<>>
    THEN [st |-> st, out |-> <<>>, err |-> <<>>, brk |-> st.term]
    ELSE LET r == parse_result_line(line)
         IN IF ~r.ok
            THEN [st |-> st, out |-> <<>>,
                  err |-> <<Diag("logger: failed to parse line", line)>>, brk |-> FALSE]
            ELSE LET c == st.count + 1
                     tl == st.total_loss + r.loss
                     ty == st.total_yhat + r.y_hat
                 IN [st |-> [count |-> c, total_loss |-> tl, total_yhat |-> ty,
                             dump |-> FALSE, term |-> st.term],
                     out |-> <<Stat("SAMPLE", r.id, FormatFloat(r.loss), FormatFloat(r.y_hat))>>,
                     err |-> IF st.dump /\ c > 0
                             THEN <<Stat("[LOGGER SNAPSHOT]", c,
                                         FormatFloat(Avg(tl, c)), FormatFloat(Avg(ty, c)))>>
                             ELSE <<>>,
                     brk |-> FALSE]

\* a logger that looks at the stop request before the snapshot request
logger_line_stop_first(st, line) ==
    IF line = <<>>
    THEN [st |-> st, out |-> <<>>, err |-> <<>>, brk |-> st.term]
    ELSE LET r == parse_result_line(line)
         IN IF ~r.ok
            THEN [st |-> st, out |-> <<>>,
                  err |-> <<Diag("logger: failed to parse line", line)>>, brk |-> FALSE]
            ELSE LET c == st.count + 1
                     tl == st.total_loss + r.loss
                     ty == st.total_yhat + r.y_hat
                 IN [st |-> [count |-> c, total_loss |-> tl, total_yhat |-> ty,
                             dump |-> st.dump /\ st.term, term |-> st.term],
                     out |-> <<Stat("SAMPLE", r.id, FormatFloat(r.loss), FormatFloat(r.y_hat))>>,
                     err |-> IF st.dump /\ ~st.term /\ c > 0
                             THEN <<Stat("[LOGGER SNAPSHOT]", c,
                                         FormatFloat(Avg(tl, c)), FormatFloat(Avg(ty, c)))>>
                             ELSE <<>>,
                     brk |-> st.term]

\* logger::run, lines 58-106: st holds count, total_loss, total_yhat and the
\* two flags; brk tells whether the iteration left the loop
logger_line(st, line) ==
    IF line = <<>>
    THEN [st |-> st, out |-> <<>>, err |-> <<>>, brk |-> st.term]
    ELSE LET r == parse_result_line(line)
         IN IF ~r.ok
            THEN [st |-> st, out |-> <<>>,
                  err |-> <<Diag("logger: failed to parse line", line)>>, brk |-> FALSE]
            ELSE LET c == st.count + 1
                     tl == st.total_loss + r.loss
                     ty == st.total_yhat + r.y_hat
                 IN [st |-> [count |-> c, total_loss |-> tl, total_yhat |-> ty,
                             dump |-> FALSE, term |-> st.term],
                     out |-> <<Stat("SAMPLE", r.id, FormatFloat(r.loss), FormatFloat(r.y_hat))>>,
                     err |-> IF st.dump /\ c > 0
                             THEN <<Stat("[LOGGER SNAPSHOT]", c,
                                         FormatFloat(Avg(tl, c)), FormatFloat(Avg(ty, c)))>>
                             ELSE <<>>,
                     brk |-> st.term]

\* ------------------------------------------------------------------------
\* Inputs
\* ------------------------------------------------------------------------

\* number of lines of the longest input (the dataset, or the stdin of a
\* stage run on its own)
MaxLines == 3

\* The line at position id of the input of stage k, by shape:
\*   "a", "b"  two different well-formed records
\*   "big"     a well-formed record whose value overflows further down
\*   "short"   a record with fields missing
\*   "word"    a line with a word in place of a number
\*   "blank"   an empty line
Shapes == {"a", "b", "big", "short", "word", "blank"}
PipeShapes == {"a", "big", "short", "blank"}

CsvRecord(id, x4, y) == <<id, COMMA, SCALE, COMMA, 0, COMMA, 0, COMMA, x4, COMMA, y>>
SampleRecord(id, x4, y) == <<id, SCALE, 0, 0, x4, y>>

LineOf(k, shape, id) ==
    IF shape = "blank" THEN <<>>
    ELSE IF k = PRE
    THEN CASE shape = "a" -> CsvRecord(id, SCALE, 2 * SCALE)
           [] shape = "b" -> CsvRecord(id, 2 * SCALE, 0)
           [] shape = "big" -> CsvRecord(id, 20 * SCALE, 0)
           [] shape = "short" -> <<id, COMMA, SCALE>>
           [] OTHER -> <<id, COMMA, SCALE, COMMA, GARBAGE, COMMA, 0, COMMA, 0, COMMA, 0>>
    ELSE IF k = LOG
    THEN CASE shape = "a" -> <<id, SCALE, 5000>>
           [] shape = "b" -> <<id, 2500, 2 * SCALE>>
           [] shape = "big" -> <<id, 150 * SCALE, 100 * SCALE>>
           [] shape = "short" -> <<id, SCALE>>
           [] OTHER -> <<id, PINF, SCALE>>
    ELSE CASE shape = "a" -> SampleRecord(id, SCALE, 2 * SCALE)
           [] shape = "b" -> SampleRecord(id, 2 * SCALE, 0)
           [] shape = "big" -> IF k = FWD THEN SampleRecord(id, 20 * SCALE, 0)
                               ELSE SampleRecord(id, SCALE, 30 * SCALE)
           [] shape = "short" -> <<id, SCALE, 0>>
           [] OTHER -> SampleRecord(id, PINF, 0)

\* --- reading a line and writing the lines it produced --------------------

\* stage k's stdout is a pipe whose reader is gone: write gets SIGPIPE
BrokenPipe(k) == solo = 0 /\ k < LOG /\ ReaderGone(k)

\* stage k's stdout is a pipe that is full: write blocks until the reader
\* has made room
PipeFull(k) == solo = 0 /\ k < LOG /\ cap > 0 /\ Len(sin[k + 1]) >= cap

\* The lines getline can hand to stage k next: the head of its pipe, or,
\* for the stage fed from outside, any line (the id is the line number).
NextLines(k) ==
    IF HeadStage(k)
    THEN (IF Len(sread[k]) < MaxLines
          THEN {LineOf(k, sh, Len(sread[k]) + 1) : sh \in shapes}
          ELSE {})
    ELSE (IF sin[k] # <<>> THEN {Head(sin[k])} ELSE {})

\* Stage k has read line, writes out on its stdout and err on its stderr.
\* Written lines reach the next stage's input when the stages are wired; a
\* write on a pipe without reader kills the stage.
StageIO(k, line, out, err) ==
    LET rest == IF HeadStage(k) THEN sin ELSE [sin EXCEPT ![k] = Tail(@)]
    IN /\ out # <<>> => (~PipeFull(k) \/ BrokenPipe(k))
       /\ sread' = [sread EXCEPT ![k] = Append(@, line)]
       /\ serr' = [serr EXCEPT ![k] = @ \o err]
       /\ IF out # <<>> /\ BrokenPipe(k)
          THEN /\ sin' = rest
               /\ sout' = sout
               /\ spc' = [spc EXCEPT ![k] = "killed"]
               /\ sstatus' = [sstatus EXCEPT ![k] = Signaled(SIGPIPE)]
          ELSE /\ sin' = IF solo = 0 /\ k < LOG
                         THEN [rest EXCEPT ![k + 1] = @ \o out]
                         ELSE rest
               /\ sout' = [sout EXCEPT ![k] = @ \o out]
               /\ UNCHANGED <<spc, sstatus>>

Return(k, c) ==
    /\ spc' = [spc EXCEPT ![k] = "done"]
    /\ sstatus' = [sstatus EXCEPT ![k] = Exited(c)]

learnerVars == <<mode, params, paramsAtLoad, mfile, mfileWritable, lcount>>
loggerVars == <<count, total_loss, total_yhat, g_dump_requested, g_terminate_requested>>
envVars == <<solo, csvOpen, cap, faults, shapes>>

\* preprocess::run, lines 15-21: open the dataset
PreprocessOpen ==
    /\ spc[PRE] = "start"
    /\ IF csvOpen
       THEN /\ spc' = [spc EXCEPT ![PRE] = "run"]
            /\ UNCHANGED <<serr, sstatus>>
       ELSE /\ serr' = [serr EXCEPT ![PRE] =
                          Append(@, Diag("preprocess: failed to open CSV file", <<>>))]
            /\ Return(PRE, 1)
    /\ UNCHANGED <<sin, sread, sout, envVars, learnerVars, loggerVars>>
    /\ UNCHANGED orchVars

\* preprocess::run, one iteration of the loop at lines 24-43
PreprocessStep ==
    /\ spc[PRE] = "run"
    /\ \E line \in NextLines(PRE) :
          LET r == preprocess_line(line)
          IN StageIO(PRE, line, r.out, r.err)
    /\ UNCHANGED <<envVars, learnerVars, loggerVars>>
    /\ UNCHANGED orchVars

\* preprocess::run, getline fails, line 45
PreprocessEof ==
    /\ spc[PRE] = "run" /\ AtEof(PRE)
    /\ Return(PRE, 0)
    /\ UNCHANGED <<sin, sread, sout, serr, envVars, learnerVars, loggerVars>>
    /\ UNCHANGED orchVars

\* forward_layer::run, one iteration of the loop at lines 17-36
ForwardStep ==
    /\ spc[FWD] = "run"
    /\ \E line \in NextLines(FWD) :
          LET r == forward_line(line)
          IN StageIO(FWD, line, r.out, r.err)
    /\ UNCHANGED <<envVars, learnerVars, loggerVars>>
    /\ UNCHANGED orchVars

\* forward_layer::run, getline fails, line 38
ForwardEof ==
    /\ spc[FWD] = "run" /\ AtEof(FWD)
    /\ Return(FWD, 0)
    /\ UNCHANGED <<sin, sread, sout, serr, envVars, learnerVars, loggerVars>>
    /\ UNCHANGED orchVars

\* backward_layer::run, lines 129-147: mode, path and, in test mode, the load
LearnerStart ==
    /\ spc[BWD] = "start"
    /\ IF mode = "test"
       THEN LET r == load_parameters(params, mfile)
            IN /\ params' = r.params
               /\ paramsAtLoad' = r.params
               /\ serr' = [serr EXCEPT ![BWD] = Append(@,
                              IF r.ok THEN Diag("backward_layer: loaded parameters", <<>>)
                              ELSE Diag("backward_layer: no model file", <<>>))]
       ELSE /\ paramsAtLoad' = params
            /\ UNCHANGED <<params, serr>>
    /\ spc' = [spc EXCEPT ![BWD] = "run"]
    /\ UNCHANGED <<sin, sread, sout, sstatus, envVars, mode, mfile, mfileWritable,
                   lcount, loggerVars>>
    /\ UNCHANGED orchVars

\* run_stream, one iteration of the loop at lines 84-118
LearnerStep ==
    /\ spc[BWD] = "run"
    /\ \E line \in NextLines(BWD) :
          LET r == run_stream_line(mode, params, lcount, line)
          IN /\ params' = r.params
             /\ lcount' = r.count
             /\ StageIO(BWD, line, r.out, r.err)
    /\ UNCHANGED <<envVars, mode, paramsAtLoad, mfile, mfileWritable, loggerVars>>
    /\ UNCHANGED orchVars

LearnerEofNoSave ==
    /\ spc[BWD] = "run" /\ AtEof(BWD)
    /\ Return(BWD, 0)
    /\ UNCHANGED <<sin, sread, sout, serr, envVars, learnerVars, loggerVars>>
    /\ UNCHANGED orchVars

\* run_stream returns 0 at end of input (line 120); backward_layer::run
\* goes on to save in train mode (line 149) and returns rc in test mode
LearnerEof ==
    /\ spc[BWD] = "run" /\ AtEof(BWD)
    /\ IF mode = "train"
       THEN /\ spc' = [spc EXCEPT ![BWD] = "save"]
            /\ UNCHANGED sstatus
       ELSE Return(BWD, 0)
    /\ UNCHANGED <<sin, sread, sout, serr, envVars, learnerVars, loggerVars>>
    /\ UNCHANGED orchVars

LearnerSaveOpenHardFail ==
    /\ spc[BWD] = "save"
    /\ IF mfileWritable
       THEN /\ mfile' = EmptyFile
            /\ spc' = [spc EXCEPT ![BWD] = "save_write"]
            /\ UNCHANGED <<serr, sstatus>>
       ELSE /\ serr' = [serr EXCEPT ![BWD] =
                          Append(@, Diag("backward_layer: failed to save parameters", <<>>))]
            /\ Return(BWD, 1)
            /\ UNCHANGED mfile
    /\ UNCHANGED <<sin, sread, sout, envVars, mode, params, paramsAtLoad,
                   mfileWritable, lcount, loggerVars>>
    /\ UNCHANGED orchVars

\* save_parameters, lines 259-263: opening the ofstream truncates the file
LearnerSaveOpen ==
    /\ spc[BWD] = "save"
    /\ IF mfileWritable
       THEN /\ mfile' = EmptyFile
            /\ spc' = [spc EXCEPT ![BWD] = "save_write"]
            /\ UNCHANGED <<serr, sstatus>>
       ELSE /\ serr' = [serr EXCEPT ![BWD] =
                          Append(@, Diag("backward_layer: failed to save parameters", <<>>))]
            /\ Return(BWD, 0)
            /\ UNCHANGED mfile
    /\ UNCHANGED <<sin, sread, sout, envVars, mode, params, paramsAtLoad,
                   mfileWritable, lcount, loggerVars>>
    /\ UNCHANGED orchVars

\* save_parameters, lines 265-294, and the return of backward_layer::run
LearnerSaveWrite ==
    /\ spc[BWD] = "save_write"
    /\ mfile' = [exists |-> TRUE, toks |-> save_text(params)]
    /\ serr' = [serr EXCEPT ![BWD] = Append(@, Diag("backward_layer: saved parameters", <<>>))]
    /\ Return(BWD, 0)
    /\ UNCHANGED <<sin, sread, sout, envVars, mode, params, paramsAtLoad,
                   mfileWritable, lcount, loggerVars>>
    /\ UNCHANGED orchVars

\* logger::run, lines 45-53: the handlers are installed
LoggerStart ==
    /\ spc[LOG] = "start"
    /\ spc' = [spc EXCEPT ![LOG] = "run"]
    /\ UNCHANGED <<sin, sread, sout, serr, sstatus, envVars, learnerVars, loggerVars>>
    /\ UNCHANGED orchVars

LoggerState == [count |-> count, total_loss |-> total_loss, total_yhat |-> total_yhat,
                dump |-> g_dump_requested, term |-> g_terminate_requested]

\* logger::run, one iteration of the loop at lines 56-107
LoggerStep ==
    /\ spc[LOG] = "run"
    /\ \E line \in NextLines(LOG) :
          LET r == logger_line(LoggerState, line)
          IN /\ count' = r.st.count
             /\ total_loss' = r.st.total_loss
             /\ total_yhat' = r.st.total_yhat
             /\ g_dump_requested' = r.st.dump
             /\ sread' = [sread EXCEPT ![LOG] = Append(@, line)]
             /\ sin' = IF HeadStage(LOG) THEN sin ELSE [sin EXCEPT ![LOG] = Tail(@)]
             /\ sout' = [sout EXCEPT ![LOG] = @ \o r.out]
             /\ serr' = [serr EXCEPT ![LOG] = @ \o r.err]
             /\ spc' = IF r.brk THEN [spc EXCEPT ![LOG] = "final"] ELSE spc
    /\ UNCHANGED <<sstatus, g_terminate_requested, envVars, learnerVars>>
    /\ UNCHANGED orchVars

\* logger::run, getline fails: the loop ends
LoggerEof ==
    /\ spc[LOG] = "run" /\ AtEof(LOG)
    /\ spc' = [spc EXCEPT ![LOG] = "final"]
    /\ UNCHANGED <<sin, sread, sout, serr, sstatus, envVars, learnerVars, loggerVars>>
    /\ UNCHANGED orchVars

LoggerFinalAlwaysSummary ==
    /\ spc[LOG] = "final"
    /\ sout' = [sout EXCEPT ![LOG] = Append(@,
                  IF count > 0
                  THEN Stat("SUMMARY", count, FormatFloat(Avg(total_loss, count)),
                            FormatFloat(Avg(total_yhat, count)))
                  ELSE Stat("SUMMARY", 0, 0, 0))]
    /\ UNCHANGED serr
    /\ Return(LOG, 0)
    /\ UNCHANGED <<sin, sread, envVars, learnerVars, loggerVars>>
    /\ UNCHANGED orchVars

\* logger::run, lines 109-128: the final summary and return 0
LoggerFinal ==
    /\ spc[LOG] = "final"
    /\ IF count > 0
       THEN /\ sout' = [sout EXCEPT ![LOG] = Append(@,
                          Stat("SUMMARY", count, FormatFloat(Avg(total_loss, count)),
                               FormatFloat(Avg(total_yhat, count))))]
            /\ UNCHANGED serr
       ELSE /\ serr' = [serr EXCEPT ![LOG] =
                          Append(@, Diag("[LOGGER FINAL] no samples processed", <<>>))]
            /\ UNCHANGED sout
    /\ Return(LOG, 0)
    /\ UNCHANGED <<sin, sread, envVars, learnerVars, loggerVars>>
    /\ UNCHANGED orchVars

\* a SIGUSR1 handler that writes the snapshot itself
handle_sigusr1_dumps ==
    /\ spc[LOG] \in {"run", "final"}
    /\ g_dump_requested' = TRUE
    /\ serr' = [serr EXCEPT ![LOG] = Append(@, Stat("[LOGGER SNAPSHOT]", count, 0, 0))]
    /\ UNCHANGED <<sin, sread, sout, spc, sstatus, envVars, learnerVars,
                   count, total_loss, total_yhat, g_terminate_requested>>
    /\ UNCHANGED orchVars

\* handle_sigusr1, lines 25-28 (SIGUSR1 delivered once the handler is installed)
handle_sigusr1 ==
    /\ spc[LOG] \in {"run", "final"}
    /\ g_dump_requested' = TRUE
    /\ UNCHANGED <<sin, sread, sout, serr, spc, sstatus, envVars, learnerVars,
                   count, total_loss, total_yhat, g_terminate_requested>>
    /\ UNCHANGED orchVars

\* handle_sigterm, lines 35-38 (SIGTERM delivered once the handler is installed)
handle_sigterm ==
    /\ spc[LOG] \in {"run", "final"}
    /\ g_terminate_requested' = TRUE
    /\ UNCHANGED <<sin, sread, sout, serr, spc, sstatus, envVars, learnerVars,
                   count, total_loss, total_yhat, g_dump_requested>>
    /\ UNCHANGED orchVars

NextData ==
    \/ PreprocessOpen
    \/ PreprocessStep
    \/ PreprocessEof
    \/ ForwardStep
    \/ ForwardEof
    \/ LearnerStart
    \/ LearnerStep
    \/ LearnerEof
    \/ LearnerSaveOpen
    \/ LearnerSaveWrite
    \/ LoggerStart
    \/ LoggerStep
    \/ LoggerEof
    \/ LoggerFinal
    \/ handle_sigusr1
    \/ handle_sigterm

\* parameter files the learner can find at its path
OtherParams == [InitialParams EXCEPT !.b2 = 2500, !.w2[1] = 1500]
SavedFile == [exists |-> TRUE, toks |-> save_text(OtherParams)]
\* a file saved by a build with HIDDEN_DIM = 4: 4 * 4 + 4 + 4 + 1 values
WrongDimFile == [exists |-> TRUE, toks |-> <<4, INPUT_DIM>> \o [i \in 1..25 |-> 7000]]
TruncatedFile == [exists |-> TRUE, toks |-> <<HIDDEN_DIM, INPUT_DIM, 7000, 7000, 7000>>]
GarbledFile == [exists |-> TRUE, toks |-> <<HIDDEN_DIM, INPUT_DIM, 7000, GARBAGE, 7000>>]
ModelFiles == {NoFile, SavedFile, WrongDimFile, TruncatedFile, GarbledFile}

\* the learner and the logger as they are when their process starts
InitLearnerLogger ==
    /\ params = InitialParams
    /\ paramsAtLoad = InitialParams
    /\ lcount = 0
    /\ count = 0
    /\ total_loss = 0
    /\ total_yhat = 0
    /\ g_dump_requested = FALSE
    /\ g_terminate_requested = FALSE

\* no stage program is running (the orchestrator is looked at on its own)
InitDataIdle ==
    /\ solo = -1
    /\ csvOpen = TRUE
    /\ cap = 0
    /\ faults = 0
    /\ shapes = {}
    /\ sin = [k \in Stages |-> <<>>]
    /\ sread = [k \in Stages |-> <<>>]
    /\ sout = [k \in Stages |-> <<>>]
    /\ serr = [k \in Stages |-> <<>>]
    /\ spc = [k \in Stages |-> "idle"]
    /\ sstatus = [k \in Stages |-> NoStatus]
    /\ mode = "train"
    /\ mfile = NoFile
    /\ mfileWritable = TRUE
    /\ InitLearnerLogger

StartPc(k) == IF k = FWD THEN "run" ELSE "start"

\* the four stages wired stage to stage, preprocess reading the dataset
InitPipe ==
    /\ InitOrch
    /\ solo = 0
    /\ csvOpen \in BOOLEAN
    /\ cap = 0
    /\ faults = 0
    /\ shapes = PipeShapes
    /\ sin = [k \in Stages |-> <<>>]
    /\ sread = [k \in Stages |-> <<>>]
    /\ sout = [k \in Stages |-> <<>>]
    /\ serr = [k \in Stages |-> <<>>]
    /\ spc = [k \in Stages |-> StartPc(k)]
    /\ sstatus = [k \in Stages |-> NoStatus]
    /\ mode \in {"train", "test"}
    /\ mfile = NoFile
    /\ mfileWritable = TRUE
    /\ InitLearnerLogger

\* one stage program run on its own, fed any input on its stdin
InitStage ==
    /\ InitOrch
    /\ solo \in Stages
    /\ csvOpen \in (IF solo = PRE THEN BOOLEAN ELSE {TRUE})
    /\ cap = 0
    /\ faults = 0
    /\ shapes = Shapes
    /\ sin = [k \in Stages |-> <<>>]
    /\ sread = [k \in Stages |-> <<>>]
    /\ sout = [k \in Stages |-> <<>>]
    /\ serr = [k \in Stages |-> <<>>]
    /\ spc = [k \in Stages |-> IF k = solo THEN StartPc(k) ELSE "idle"]
    /\ sstatus = [k \in Stages |-> NoStatus]
    /\ mode \in (IF solo = BWD THEN {"train", "test"} ELSE {"train"})
    /\ mfile \in (IF solo # BWD THEN {NoFile}
                  ELSE IF mode = "test" THEN ModelFiles ELSE {NoFile, SavedFile})
    /\ mfileWritable \in (IF solo = BWD /\ mode = "train" THEN BOOLEAN ELSE {TRUE})
    /\ InitLearnerLogger

vars == <<orchVars, dataVars>>

Init == InitOrch /\ InitDataIdle

Next == NextOrch

Spec == Init /\ [][Next]_vars

SpecPipe == InitPipe /\ [][NextData]_vars

SpecStage == InitStage /\ [][NextData]_vars

\* ------------------------------------------------------------------------
\* The whole pipeline: the trainer, its four children running the stage
\* programs, and pipes of bounded capacity between them.  No call of the
\* trainer fails and no stop request is sent.
\* ------------------------------------------------------------------------

\* lines a pipe holds before its writer blocks
PipeCap == 1

\* trainer::run, lines 81-95, every pipe call succeeding
FlowPipe(i) == TrainerPipe(i) /\ tfail' = "none"

\* spawn_child, fork succeeding
FlowSpawn(k) == TrainerSpawn(k) /\ tfail' = "none"

\* child side of spawn_child, dup2 succeeding
FlowDupStdin(k) == ChildDupStdin(k) /\ cstate'[k] = "forked"
FlowDupStdout(k) == ChildDupStdout(k) /\ cstate'[k] = "forked"

\* execvp succeeds (line 59): the close-on-exec descriptors are closed and
\* the stage program starts at its main
FlowExec(k) ==
    /\ cstate[k] = "forked" /\ cpc[k] = "exec"
    /\ fds' = [fds EXCEPT ![k] = exec_fds(fds[k])]
    /\ cstate' = [cstate EXCEPT ![k] = "running"]
    /\ cpc' = [cpc EXCEPT ![k] = "-"]
    /\ spc' = [spc EXCEPT ![k] = StartPc(k)]
    /\ UNCHANGED <<tpc, tret, tfail, pfd, cstatus, g_child_exited, sigchld, tlog>>
    /\ UNCHANGED <<envVars, sin, sread, sout, serr, sstatus, learnerVars, loggerVars>>

\* the process of a stage that returned from main (or was killed) goes
\* away: its descriptors are closed and the trainer can reap it
FlowStageExit(k) ==
    /\ cstate[k] = "running"
    /\ Terminated(k)
    /\ Terminate(k, sstatus[k])
    /\ UNCHANGED <<tpc, tret, tfail, pfd, g_child_exited, tlog>>
    /\ UNCHANGED dataVars

InitFlow ==
    /\ InitOrch
    /\ solo = 0
    /\ csvOpen = TRUE
    /\ cap = PipeCap
    /\ faults = 0
    /\ shapes = PipeShapes
    /\ sin = [k \in Stages |-> <<>>]
    /\ sread = [k \in Stages |-> <<>>]
    /\ sout = [k \in Stages |-> <<>>]
    /\ serr = [k \in Stages |-> <<>>]
    /\ spc = [k \in Stages |-> "idle"]
    /\ sstatus = [k \in Stages |-> NoStatus]
    /\ mode = "train"
    /\ mfile = NoFile
    /\ mfileWritable = TRUE
    /\ InitLearnerLogger

\* the steps of the trainer and of the stages other than the per-line step
\* of a stage's loop
FlowProgram ==
    \/ \E i \in Pipes : FlowPipe(i)
    \/ TrainerSetCloexec
    \/ \E k \in Stages : FlowSpawn(k)
    \/ \E k \in Stages : FlowDupStdin(k)
    \/ \E k \in Stages : FlowDupStdout(k)
    \/ \E k \in Stages : FlowExec(k)
    \/ \E k \in Stages : FlowStageExit(k)
    \/ sigchld_handler
    \/ TrainerClosePipes
    \/ \E k \in Stages : TrainerWaitReap(k)
    \/ TrainerWaitDone
    \/ TrainerExit
    \/ PreprocessOpen
    \/ PreprocessEof
    \/ ForwardEof
    \/ LearnerStart
    \/ LearnerEof
    \/ LearnerSaveOpen
    \/ LearnerSaveWrite
    \/ LoggerStart
    \/ LoggerEof
    \/ LoggerFinal

\* one iteration of the read loop of some stage
StageStep ==
    \/ PreprocessStep
    \/ ForwardStep
    \/ LearnerStep
    \/ LoggerStep

NextFlow ==
    \/ FlowProgram
    \/ StageStep
    \/ handle_sigusr1

\* the loop of stage k has a line to read and its write would not block
\* (there is room in the pipe, or the pipe has lost its reader)
StageCanStep(k) ==
    /\ spc[k] = "run"
    /\ NextLines(k) # {}
    /\ ~PipeFull(k) \/ BrokenPipe(k)

\* every process that can take a step is eventually scheduled.  A stage's
\* loop step is enabled whenever StageCanStep holds, which states the
\* fairness of the loops without evaluating the arithmetic of a step in
\* every state.
FlowFairness ==
    /\ WF_vars(FlowProgram)
    /\ ([]<>~(\E k \in Stages : StageCanStep(k))) \/ ([]<><<StageStep>>_vars)

SpecFlow == InitFlow /\ [][NextFlow]_vars /\ FlowFairness

\* ------------------------------------------------------------------------
\* The whole pipeline with a stage that ends early: a dup2 or an exec that
\* fails in a child, a stage that crashes, a dataset preprocess cannot open,
\* a stop request to the logger.  The trainer's own calls succeed.
\* ------------------------------------------------------------------------

\* stage failures the environment may cause in one run
MaxFaults == 1

\* the dataset of these runs holds valid records only
FullShapes == {"a"}

\* child side of spawn_child: a dup2 that is made, or execvp, fails and the
\* child leaves with _exit(1) (lines 46-49, 53-56, 60-61)
FullChildFails(k) ==
    /\ faults > 0
    /\ cstate[k] = "forked"
    /\ \/ cpc[k] = "dup_stdin" /\ stdin_fd(k) >= 0 /\ stdin_fd(k) # STDIN_FILENO
       \/ cpc[k] = "dup_stdout" /\ stdout_fd(k) >= 0 /\ stdout_fd(k) # STDOUT_FILENO
       \/ cpc[k] = "exec"
    /\ Terminate(k, Exited(1))
    /\ faults' = faults - 1
    /\ UNCHANGED <<tpc, tret, tfail, pfd, g_child_exited, tlog>>
    /\ UNCHANGED <<solo, csvOpen, cap, shapes, sin, sread, sout, serr, spc, sstatus,
                   learnerVars, loggerVars>>

\* a running stage program crashes, wherever it is
FullCrash(k) ==
    /\ faults > 0
    /\ cstate[k] = "running"
    /\ ~Terminated(k)
    /\ spc' = [spc EXCEPT ![k] = "killed"]
    /\ sstatus' = [sstatus EXCEPT ![k] = Signaled(SIGKILL)]
    /\ faults' = faults - 1
    /\ UNCHANGED <<solo, csvOpen, cap, shapes, sin, sread, sout, serr, learnerVars,
                   loggerVars>>
    /\ UNCHANGED orchVars

InitFull ==
    /\ InitOrch
    /\ solo = 0
    /\ csvOpen \in BOOLEAN
    /\ cap = PipeCap
    /\ faults = (IF csvOpen THEN MaxFaults ELSE MaxFaults - 1)
    /\ shapes = FullShapes
    /\ sin = [k \in Stages |-> <<>>]
    /\ sread = [k \in Stages |-> <<>>]
    /\ sout = [k \in Stages |-> <<>>]
    /\ serr = [k \in Stages |-> <<>>]
    /\ spc = [k \in Stages |-> "idle"]
    /\ sstatus = [k \in Stages |-> NoStatus]
    /\ mode = "train"
    /\ mfile = NoFile
    /\ mfileWritable = TRUE
    /\ InitLearnerLogger

NextFull ==
    \/ FlowProgram
    \/ StageStep
    \/ handle_sigterm
    \/ \E k \in Stages : FullChildFails(k)
    \/ \E k \in Stages : FullCrash(k)

SpecFull == InitFull /\ [][NextFull]_vars /\ FlowFairness

\* ------------------------------------------------------------------------
\* The whole pipeline with its three signal handlers: SIGCHLD to the
\* trainer, SIGUSR1 and SIGTERM to the logger, delivered at any moment.
\* ------------------------------------------------------------------------

InitSignals ==
    /\ InitOrch
    /\ solo = 0
    /\ csvOpen = TRUE
    /\ cap = PipeCap
    /\ faults = 0
    /\ shapes = FullShapes
    /\ sin = [k \in Stages |-> <<>>]
    /\ sread = [k \in Stages |-> <<>>]
    /\ sout = [k \in Stages |-> <<>>]
    /\ serr = [k \in Stages |-> <<>>]
    /\ spc = [k \in Stages |-> "idle"]
    /\ sstatus = [k \in Stages |-> NoStatus]
    /\ mode = "train"
    /\ mfile = NoFile
    /\ mfileWritable = TRUE
    /\ InitLearnerLogger

NextSignals ==
    \/ NextFlow
    \/ handle_sigterm

SpecSignals == InitSignals /\ [][NextSignals]_vars

\* ------------------------------------------------------------------------
\* Properties
\* ------------------------------------------------------------------------

AllCleanExit == \A k \in Stages : cstatus[k] = Exited(0)

LogEntriesOf(k) == {i \in DOMAIN tlog : tlog[i].pid = k}

\* C1: trainer::run returns 0 only if every one of the four stages exited
\* normally with exit code 0 (so a run in which a stage exits non-zero or is
\* killed by a signal returns non-zero).
C1_ReturnsZeroOnlyIfAllClean ==
    (tpc = "done" /\ tret = 0) => AllCleanExit

\* C2: once the four stages are spawned and exec'd and the orchestrator has
\* executed its close calls, every pipe has exactly one open write end, the
\* stdout of the upstream stage, and exactly one open read end, the stdin of
\* the downstream stage; the first stage has no piped stdin and the last
\* stage no piped stdout.
C2_PipeEnds ==
    (tpc \in {"wait", "done", "exited"} /\ \A k \in Stages : cstate[k] = "running")
    => /\ \A i \in Pipes :
            /\ Holders(i, "w") = {<<i, STDOUT_FILENO>>}
            /\ Holders(i, "r") = {<<i + 1, STDIN_FILENO>>}
       /\ fds[PRE][STDIN_FILENO].kind = "std"
       /\ fds[LOG][STDOUT_FILENO].kind = "std"

C2_Witness ==
    tpc = "wait" /\ \A k \in Stages : cstate[k] = "running"

\* C3: if spawning stage k (k = 2, 3, 4) fails after earlier stages were
\* started, trainer::run closes every pipe end it holds and reaps every
\* child it spawned before it returns failure.
C3_SpawnFailureCleansUp ==
    (tpc = "done" /\ tfail = "fork" /\ Spawned # {})
    => /\ tret # 0
       /\ TrainerPipeFds = {}
       /\ \A k \in Spawned : cstate[k] = "reaped"

\* C4: when all four spawns succeed, trainer::run returns only after each
\* child has terminated and been reaped, in whatever order they exit; the
\* wait loop writes exactly one termination line per child, telling a
\* termination by signal from a normal exit, and a child killed by a signal
\* does not stop the reaping of the others.
C4_AllReapedAndLogged ==
    (tpc \in {"done", "exited"} /\ tfail = "none")
    => \A k \in Stages :
          /\ cstate[k] = "reaped"
          /\ Cardinality(LogEntriesOf(k)) = 1
          /\ \A i \in LogEntriesOf(k) : tlog[i].st = cstatus[k]

C4_Witness ==
    /\ tpc = "done" /\ tfail = "none"
    /\ cstatus[PRE].kind = "signaled"
    /\ cstatus[LOG] = Exited(0)
    /\ tlog[1].pid = LOG

\* C5: if creating one of the three pipes fails, trainer::run returns
\* non-zero without spawning any stage, and has closed every pipe end an
\* earlier successful pipe call created.
C5_PipeFailureCleansUp ==
    (tpc = "done" /\ tfail = "pipe")
    => /\ tret # 0
       /\ Spawned = {}
       /\ TrainerPipeFds = {}

IsCsvRecord(line) == line # <<>> /\ parse_csv_line(line).ok
IsSampleRecord(line) == line # <<>> /\ parse_sample_line(line).ok
IsSampleLine(e) == e.tag = "SAMPLE"

FirstTokens(lines) == [i \in DOMAIN lines |-> lines[i][1]]
SampleIds(entries) ==
    LET sel == SelectSeq(entries, IsSampleLine) IN [i \in DOMAIN sel |-> sel[i].n]

\* C6: with distinct ids and no stop-request, the ids on the SAMPLE lines
\* the logger wrote are the ids of the dataset lines that parse, in the
\* same order: no stage renumbers, reorders, duplicates or drops a parsed
\* record.
C6_OrderPreserved ==
    (solo = 0 /\ csvOpen /\ spc[LOG] = "done" /\ ~g_terminate_requested)
    => SampleIds(sout[LOG]) = FirstTokens(SelectSeq(sread[PRE], IsCsvRecord))

\* whether a non-empty line is rejected by the parser stage k uses
ParseFails(k, line) ==
    /\ line # <<>>
    /\ ~(CASE k = PRE -> parse_csv_line(line).ok
           [] k = LOG -> parse_result_line(line).ok
           [] OTHER -> parse_sample_line(line).ok)

\* C7: in every stage a line that fails to parse produces no line on the
\* stage's stdout, does not end the stage and changes neither the model
\* parameters nor the running statistics; the stage stays in its read loop.
C7_MalformedLineSkipped ==
    [][\A k \in Stages :
          (Len(sread'[k]) = Len(sread[k]) + 1 /\ ParseFails(k, sread'[k][Len(sread'[k])]))
          => /\ sout'[k] = sout[k]
             /\ spc'[k] = "run"
             /\ params' = params
             /\ lcount' = lcount
             /\ count' = count
             /\ total_loss' = total_loss
             /\ total_yhat' = total_yhat]_vars

C7_Witness ==
    \E k \in Stages :
        /\ solo = k
        /\ Len(sread[k]) = 2
        /\ ParseFails(k, sread[k][1])
        /\ sread[k][2] # <<>> /\ ~ParseFails(k, sread[k][2])
        /\ Len(sout[k]) = 1
        /\ Len(serr[k]) >= 1

\* the parameters after the updates for the parsed lines among the first n
\* lines, applied one after the other to p
RECURSIVE TrainFold(_, _, _)
TrainFold(p, lines, n) ==
    IF n = 0 THEN p
    ELSE LET q == TrainFold(p, lines, n - 1)
         IN IF IsSampleRecord(lines[n])
            THEN LET s == parse_sample_line(lines[n]).s
                 IN compute_backward_and_update(q, s, compute_forward(q, s)).params
            ELSE q

\* C8: in train mode the learner applies exactly one update per parsed
\* record, in arrival order: after any number of lines read, its parameters
\* are the initial parameters with the update of parsed record 1, then
\* record 2, ... applied once each, and its count of processed records is
\* the number of parsed records read.
C8_OneUpdatePerRecord ==
    (solo = BWD /\ mode = "train")
    => /\ lcount = Len(SelectSeq(sread[BWD], IsSampleRecord))
       /\ params = TrainFold(InitialParams, sread[BWD], Len(sread[BWD]))

C8_Witness ==
    /\ solo = BWD /\ mode = "train"
    /\ spc[BWD] = "save"
    /\ Len(sread[BWD]) = 3
    /\ IsSampleRecord(sread[BWD][1])
    /\ ~IsSampleRecord(sread[BWD][2])
    /\ IsSampleRecord(sread[BWD][3])
    /\ sread[BWD][1][5] # sread[BWD][3][5]
    /\ params # InitialParams

\* C9: in test mode the stream loop never changes the parameters: they
\* stay what they were when load_parameters finished.
C9_TestModeKeepsParams ==
    (mode = "test" /\ spc[BWD] \in {"run", "done", "killed"}) => params = paramsAtLoad

C9_Witness ==
    /\ solo = BWD /\ mode = "test"
    /\ spc[BWD] = "done"
    /\ lcount >= 2
    /\ params = OtherParams

\* C10: in both modes the learner writes exactly one result line per parsed
\* input record, carrying the record's id, and no line for any other input.
C10_OneResultPerRecord ==
    solo = BWD
    => FirstTokens(sout[BWD]) = FirstTokens(SelectSeq(sread[BWD], IsSampleRecord))

C10_Witness ==
    /\ solo = BWD
    /\ spc[BWD] = "done"
    /\ Len(sread[BWD]) = 3
    /\ ~IsSampleRecord(sread[BWD][1])
    /\ Len(sout[BWD]) = 2
    /\ sout[BWD][1][1] = 2

\* the diagnostics load_parameters' caller and save_parameters' caller write,
\* one per call
LoadCalls == Len(SelectSeq(serr[BWD], LAMBDA e :
                 e.tag \in {"backward_layer: loaded parameters", "backward_layer: no model file"}))
SaveCalls == Len(SelectSeq(serr[BWD], LAMBDA e :
                 e.tag \in {"backward_layer: saved parameters",
                            "backward_layer: failed to save parameters"}))

C12_BadFileKeepsDefaults ==
    (solo = BWD /\ mode = "test" /\ mfile \in {NoFile, WrongDimFile})
    => /\ params = InitialParams
       /\ spc[BWD] \in {"start", "run", "done"}
       /\ (spc[BWD] # "start" => serr[BWD][1].tag = "backward_layer: no model file")
       /\ (spc[BWD] = "done" =>
              /\ sstatus[BWD] = Exited(0)
              /\ Len(sout[BWD]) = Len(SelectSeq(sread[BWD], IsSampleRecord)))

C12_Witness ==
    /\ solo = BWD /\ mode = "test" /\ mfile = WrongDimFile
    /\ spc[BWD] = "done"
    /\ Len(sout[BWD]) = 2
    /\ Len(sread[BWD]) = 3

\* C13: a load that fails is never partial: whenever load_parameters
\* returned false (the caller then reports that it found no model file),
\* every parameter has the value it had before the call, the initial one.
C13_FailedLoadNotPartial ==
    (solo = BWD /\ mode = "test" /\ spc[BWD] # "start"
       /\ serr[BWD][1].tag = "backward_layer: no model file")
    => paramsAtLoad = InitialParams

\* C14: the parameter file is replaced atomically: at every moment of a
\* training run a reader of the path finds what was there before the run
\* (no file, or the complete file of an earlier run) or the complete new
\* file, never an empty or half-written one.
C14_SaveIsAtomic ==
    (solo = BWD /\ mode = "train")
    => \/ mfile \in {NoFile, SavedFile}
       \/ mfile = [exists |-> TRUE, toks |-> save_text(params)]

\* C15: in train mode a save that fails because the path cannot be opened
\* for writing leaves the stream behaviour as it is: the learner has written
\* a result line, with its id, for every parsed record, reports the failure
\* on stderr, leaves the path as it was and exits with code 0.
C15_SaveFailureIsSoft ==
    (solo = BWD /\ mode = "train" /\ ~mfileWritable /\ spc[BWD] = "done")
    => /\ sstatus[BWD] = Exited(0)
       /\ FirstTokens(sout[BWD]) = FirstTokens(SelectSeq(sread[BWD], IsSampleRecord))
       /\ serr[BWD][Len(serr[BWD])].tag = "backward_layer: failed to save parameters"
       /\ mfile \in {NoFile, SavedFile}

C15_Witness ==
    /\ solo = BWD /\ mode = "train" /\ ~mfileWritable
    /\ spc[BWD] = "done"
    /\ Len(sout[BWD]) = 2
    /\ Len(sread[BWD]) = 3
    /\ params # InitialParams

IsResultRecord(line) == line # <<>> /\ parse_result_line(line).ok

\* a step of the logger's loop that has read one more line
LoggerReadsLine == solo = LOG /\ Len(sread'[LOG]) = Len(sread[LOG]) + 1

\* count and the two sums over the parsed lines among the first n lines
RECURSIVE LoggerFold(_, _)
LoggerFold(lines, n) ==
    IF n = 0 THEN [count |-> 0, total_loss |-> 0, total_yhat |-> 0]
    ELSE LET q == LoggerFold(lines, n - 1)
             r == parse_result_line(lines[n])
         IN IF IsResultRecord(lines[n])
            THEN [count |-> q.count + 1, total_loss |-> q.total_loss + r.loss,
                  total_yhat |-> q.total_yhat + r.y_hat]
            ELSE q

\* C16: the logger acts on pending requests only at a line boundary: at
\* every moment count and the two sums are those of the same parsed lines,
\* each of which has its SAMPLE line written; and after every line it has
\* finished, parsed, malformed or blank, it looks at both pending requests
\* before it reads the next line: a pending stop ends the loop and a pending
\* snapshot request is taken.
C16_RequestsAtRecordBoundary ==
    /\ [](solo = LOG =>
            /\ LoggerState.count = LoggerFold(sread[LOG], Len(sread[LOG])).count
            /\ total_loss = LoggerFold(sread[LOG], Len(sread[LOG])).total_loss
            /\ total_yhat = LoggerFold(sread[LOG], Len(sread[LOG])).total_yhat
            /\ (spc[LOG] \in {"run", "final"} =>
                   count = Len(SelectSeq(sout[LOG], IsSampleLine))))
    /\ [][LoggerReadsLine =>
            /\ (g_terminate_requested => spc'[LOG] = "final")
            /\ (g_dump_requested => ~g_dump_requested')]_vars

\* C17: a snapshot request met at a line boundary with zero records
\* processed emits nothing and is dropped, so that it causes no snapshot
\* later; one met with count > 0 emits count and the two averages on stderr
\* and is cleared.
C17_SnapshotRequest ==
    [][(LoggerReadsLine /\ g_dump_requested) =>
          /\ ~g_dump_requested'
          /\ IF count' = 0
             THEN serr'[LOG] = serr[LOG]
             ELSE serr'[LOG] = Append(serr[LOG],
                     Stat("[LOGGER SNAPSHOT]", count', FormatFloat(Avg(total_loss', count')),
                          FormatFloat(Avg(total_yhat', count'))))]_vars

\* C18: once a stop request is recorded the logger finishes the line it is
\* at and leaves the loop before it reads another: a step that reads a line
\* with the stop request pending is the last one.
C18_StopConsumesNoFurtherLine ==
    [][(LoggerReadsLine /\ g_terminate_requested) => spc'[LOG] = "final"]_vars

IsSummaryLine(e) == e.tag = "SUMMARY"

\* C19: when the logger's loop has ended, by end of input or by a stop
\* request, it exits with code 0; if it counted records its stdout ends
\* with the one SUMMARY line, whose count is the number of SAMPLE lines and
\* whose averages are the sums of the parsed lines' losses and predictions
\* divided by that count; if it counted none its stdout is empty and its
\* last stderr line is the note that no sample was processed.
C19_FinalSummary ==
    (solo = LOG /\ spc[LOG] = "done")
    => LET f == LoggerFold(sread[LOG], Len(sread[LOG]))
           out == sout[LOG]
       IN /\ sstatus[LOG] = Exited(0)
          /\ IF f.count > 0
             THEN /\ Len(SelectSeq(out, IsSummaryLine)) = 1
                  /\ out[Len(out)] =
                        Stat("SUMMARY", Len(SelectSeq(out, IsSampleLine)),
                             FormatFloat(Avg(f.total_loss, f.count)),
                             FormatFloat(Avg(f.total_yhat, f.count)))
                  /\ Len(out) = f.count + 1
             ELSE /\ out = <<>>
                  /\ serr[LOG] # <<>>
                  /\ serr[LOG][Len(serr[LOG])].tag = "[LOGGER FINAL] no samples processed"

C19_Witness ==
    /\ solo = LOG /\ spc[LOG] = "done"
    /\ g_terminate_requested
    /\ count = 2
    /\ Len(sread[LOG]) = 3
    /\ sout[LOG][3].tag = "SUMMARY"
    /\ sout[LOG][3].a # sout[LOG][1].a

\* the pipeline is over: every stage has returned and been reaped and the
\* trainer has returned
FlowDone ==
    /\ tpc \in {"done", "exited"}
    /\ \A k \in Stages : spc[k] = "done" /\ cstate[k] = "reaped"

\* under backpressure the pipeline does not deadlock: it ends, and stays
\* ended
FlowTerminates == <>[]FlowDone

\* C20: with pipes that hold less than the data, no failing call and no
\* stop request, the pipeline does not deadlock: every stage terminates and
\* the trainer returns, and every dataset line that parsed has reached the
\* logger exactly once (its id is on exactly one SAMPLE line, in order).
C20_NoDeadlockNoLoss ==
    /\ FlowTerminates
    /\ [](cap > 0 /\ Len(sread[PRE]) > cap /\ FlowDone =>
            SampleIds(sout[LOG]) = FirstTokens(SelectSeq(sread[PRE], IsCsvRecord)))

\* the parameters of a train-mode learner that starts from p and the result
\* lines it writes, after the first n of the lines it reads
RECURSIVE LearnerFold(_, _, _)
LearnerFold(p, lines, n) ==
    IF n = 0 THEN [params |-> p, out |-> <<>>]
    ELSE LET f == LearnerFold(p, lines, n - 1)
         IN IF IsSampleRecord(lines[n])
            THEN LET s == parse_sample_line(lines[n]).s
                     y_hat == compute_forward(f.params, s)
                     u == compute_backward_and_update(f.params, s, y_hat)
                 IN [params |-> u.params,
                     out |-> Append(f.out, <<s.id, FormatFloat(u.loss), FormatFloat(y_hat)>>)]
            ELSE f

\* what C21 says of a state: the learner's parameters and the results it
\* has written are those LearnerFold gives for the lines it has read (a
\* learner killed by SIGPIPE did not write the result of its last line)
LearnerIsFold(prm, rd, out, pc) ==
    LET n == Len(rd)
        f == LearnerFold(InitialParams, rd, n)
    IN /\ prm = f.params
       /\ out = IF pc = "killed" /\ IsSampleRecord(rd[n])
                THEN SubSeq(f.out, 1, Len(f.out) - 1)
                ELSE f.out

\* C21: the train-mode learner is deterministic: whatever the interleaving
\* of the stages and however many lines wait in its pipe when it reads, the
\* results it has written and its parameters are a function of the initial
\* parameters and of the sequence of lines it has read, so two runs fed the
\* same lines write the same (id, loss, prediction) results and end with the
\* same parameters.  Stated step by step: it holds before the first read,
\* after every read, and no step that reads nothing changes the parameters
\* or the results.
C21_LearnerDeterministic ==
    /\ []((solo = 0 /\ mode = "train" /\ sread[BWD] = <<>>)
            => (params = InitialParams /\ sout[BWD] = <<>>))
    /\ [][(solo = 0 /\ mode = "train")
            => IF sread'[BWD] # sread[BWD]
               THEN LearnerIsFold(params', sread'[BWD], sout'[BWD], spc'[BWD])
               ELSE params' = params /\ sout'[BWD] = sout[BWD]]_vars

C21_Witness ==
    /\ solo = 0 /\ mode = "train"
    /\ spc[BWD] = "done"
    /\ Len(sread[BWD]) = 3
    /\ Len(sout[BWD]) = 2
    /\ sout[BWD][1][2] # sout[BWD][2][2]
    /\ params # InitialParams

\* the line a step of the logger's loop has just read
LoggerLineRead == sread'[LOG][Len(sread'[LOG])]

\* C23: the logger's statistics only accumulate: count goes up by exactly
\* one, and the two sums by the record's loss and prediction, in the step
\* that reads a line that parses, whether or not that step also writes a
\* snapshot; no other step (a malformed or blank line, a signal, the end of
\* the loop, the summary) changes count or the sums.
C23_StatisticsOnlyAccumulate ==
    [][solo = LOG =>
          IF Len(sread'[LOG]) = Len(sread[LOG]) + 1 /\ IsResultRecord(LoggerLineRead)
          THEN /\ count' = count + 1
               /\ total_loss' = total_loss + parse_result_line(LoggerLineRead).loss
               /\ total_yhat' = total_yhat + parse_result_line(LoggerLineRead).y_hat
          ELSE /\ count' = count
               /\ total_loss' = total_loss
               /\ total_yhat' = total_yhat]_vars

IsSnapshotLine(e) == e.tag = "[LOGGER SNAPSHOT]"

C23_Witness ==
    /\ solo = LOG
    /\ spc[LOG] = "run"
    /\ Len(sread[LOG]) = 3
    /\ ~IsResultRecord(sread[LOG][2])
    /\ count = 2
    /\ total_loss = sread[LOG][1][2] + sread[LOG][3][2]
    /\ Len(SelectSeq(serr[LOG], IsSnapshotLine)) = 1
    /\ IsSnapshotLine(serr[LOG][1])
    /\ serr[LOG][1].n = 1

\* C26: once the stop request is recorded at most one more record enters
\* the statistics before the loop is left, whatever lines follow: a step
\* that counts a record with the stop request pending counts one and leaves
\* the loop, and nothing is counted once the loop is left.
C26_AtMostOneRecordAfterStop ==
    /\ [][(solo = LOG /\ g_terminate_requested /\ count' # count)
            => (count' = count + 1 /\ spc'[LOG] = "final")]_vars
    /\ [][(solo = LOG /\ spc[LOG] \in {"final", "done"})
            => (count' = count /\ spc'[LOG] \in {"final", "done"})]_vars

C26_Witness ==
    /\ solo = LOG
    /\ spc[LOG] = "final"
    /\ g_terminate_requested
    /\ Len(sread[LOG]) = 3
    /\ IsResultRecord(sread[LOG][1])
    /\ ParseFails(LOG, sread[LOG][2])
    /\ IsResultRecord(sread[LOG][3])
    /\ count = 2

\* C27: a pending snapshot request is not lost to a stop request: when both
\* are pending in the step that finishes a parsed record, that step writes
\* the snapshot, which covers the record, and only then leaves the loop;
\* the SUMMARY line is not yet written at that moment.
C27_SnapshotBeforeStop ==
    [][(LoggerReadsLine /\ g_dump_requested /\ g_terminate_requested
          /\ IsResultRecord(LoggerLineRead))
        => /\ count' = count + 1
           /\ serr'[LOG] = Append(serr[LOG],
                   Stat("[LOGGER SNAPSHOT]", count', FormatFloat(Avg(total_loss', count')),
                        FormatFloat(Avg(total_yhat', count'))))
           /\ ~g_dump_requested'
           /\ spc'[LOG] = "final"
           /\ SelectSeq(sout'[LOG], IsSummaryLine) = <<>>]_vars

C27_Witness ==
    /\ solo = LOG
    /\ spc[LOG] = "done"
    /\ g_terminate_requested /\ ~g_dump_requested
    /\ Len(sread[LOG]) = 2
    /\ count = 2
    /\ Len(serr[LOG]) = 1
    /\ IsSnapshotLine(serr[LOG][1]) /\ serr[LOG][1].n = 2
    /\ IsSummaryLine(sout[LOG][3])

\* C25: a stop request to the logger does not keep a train-mode learner
\* from saving its parameters: in every run in which the logger has left
\* on a stop request, a learner that has terminated has called
\* save_parameters before.
C25_StopDoesNotPreventSave ==
    (solo = 0 /\ mode = "train" /\ g_terminate_requested
       /\ spc[LOG] = "done" /\ Terminated(BWD))
    => SaveCalls = 1

\* the positions of a forked child inside spawn_child (lines 44-61)
ChildPositions == {"dup_stdin", "dup_stdout", "exec"}

\* descriptor table tbl has the stdin and stdout trainer::run gives stage k
Rebound(k, tbl) ==
    /\ tbl[STDIN_FILENO] = (IF k = 1 THEN StdFd ELSE PipeFd(k - 1, "r"))
    /\ tbl[STDOUT_FILENO] = (IF k = 4 THEN StdFd ELSE PipeFd(k, "w"))

\* C28: a forked child never goes on as a second orchestrator: while it is
\* the forked copy it is inside spawn_child; it leaves that state only by
\* becoming its stage program through exec, with stdin and stdout already
\* rebound, or by exiting with status 1 after a failed dup2 or exec; and a
\* stage is only ever started by the trainer's own spawn step.
C28_ChildNeverReturns ==
    /\ [](\A k \in Stages :
            IF cstate[k] = "forked" THEN cpc[k] \in ChildPositions ELSE cpc[k] = "-")
    /\ [][\A k \in Stages :
            (cstate[k] = "forked" /\ cstate'[k] # "forked")
            => \/ /\ cstate'[k] = "running"
                  /\ fds'[k] = exec_fds(fds[k])
                  /\ Rebound(k, fds[k])
                  /\ Rebound(k, fds'[k])
               \/ /\ cstate'[k] = "zombie"
                  /\ cstatus'[k] = Exited(1)
                  /\ fds'[k] = ClosedFds]_vars
    /\ [][\A k \in Stages :
            (cstate[k] = "none" /\ cstate'[k] # "none")
            => (tpc = SpawnPc(k) /\ tpc' = AfterSpawnPc(k) /\ cstate'[k] = "forked")]_vars

C28_Witness ==
    /\ tpc = "wait"
    /\ cstate[1] = "running" /\ Rebound(1, fds[1])
    /\ cstate[2] = "zombie" /\ cstatus[2] = Exited(1)
    /\ cstate[3] = "forked" /\ cpc[3] = "dup_stdout"
    /\ cstate[4] = "running" /\ Rebound(4, fds[4])

\* all four children have terminated and been reaped and the trainer's wait
\* loop has ended
AllReaped ==
    /\ tpc \in {"done", "exited"}
    /\ \A k \in Stages : cstate[k] = "reaped"

\* C24: a stage that ends early (a dup2 or exec that fails in the child, a
\* crash, preprocess unable to open the dataset, the logger leaving on a
\* stop request) never leaves another stage blocked for ever: the stages
\* downstream see end of input, the stages upstream get SIGPIPE on their
\* next write, so all four children terminate and the trainer's wait loop
\* ends.
C24_EarlyExitBlocksNobody == <>[]AllReaped

C24_Witness ==
    /\ AllReaped
    /\ g_terminate_requested
    /\ cstatus[LOG] = Exited(0)
    /\ cstatus[BWD] = Signaled(SIGPIPE)
    /\ cstatus[FWD] = Signaled(SIGPIPE)
    /\ cstatus[PRE] = Signaled(SIGKILL)

\* everything of the stage programs but the logger's two flags
StagesButFlags == <<envVars, sin, sread, sout, serr, spc, sstatus, learnerVars,
                    count, total_loss, total_yhat>>

\* everything of the trainer but g_child_exited and the pending SIGCHLD
TrainerButFlag == <<tpc, tret, tfail, pfd, fds, cstate, cpc, cstatus, tlog>>

\* C22: the signal handlers only set a flag: a step that records a snapshot
\* request or a stop request in the logger changes the one flag and leaves
\* count, the sums, the input position, both output channels and everything
\* else as they were; a step that sets g_child_exited in the trainer changes
\* nothing else of the trainer or of the stages.
C22_HandlersOnlySetFlag ==
    /\ [][(~g_dump_requested /\ g_dump_requested')
            => UNCHANGED <<StagesButFlags, g_terminate_requested, orchVars>>]_vars
    /\ [][(~g_terminate_requested /\ g_terminate_requested')
            => UNCHANGED <<StagesButFlags, g_dump_requested, orchVars>>]_vars
    /\ [][g_child_exited' # g_child_exited
            => /\ g_child_exited' = 1
               /\ UNCHANGED <<TrainerButFlag, dataVars>>]_vars

C22_Witness ==
    /\ g_dump_requested
    /\ g_terminate_requested
    /\ g_child_exited = 1
    /\ spc[LOG] = "run"
    /\ count = 1
    /\ Len(sread[LOG]) = 1
    /\ tpc = "wait"

====
